---------------------------- MODULE Spec2Model ----------------------------
(***************************************************************************)
(* A model of the RX380 power-meter loggers of this repository:            *)
(*   Rx380_watchdog_1.5.py, Rx380_watchdog_1.54.py, Rx380_watchdog_1.55.py, *)
(*   Rx380_watchdog_1.56.py and Rx380_IRIV_1.6.py.                         *)
(* Each script is an asyncio main loop that reads the meter's registers    *)
(* (RX380.read_data), and hands the records to an SQL sink                 *)
(* (DataManager.save_to_sql) and a CSV sink (save_to_csv).                 *)
(*                                                                         *)
(* Python values are modelled as follows.  A dict is a function from       *)
(* strings; a dict value is a tuple: None is <<>>, a number m * 10^-e is    *)
(* <<m, e>> and a formatted timestamp is <<t>> with t the wall clock in    *)
(* seconds.  The wall clock `now` counts seconds; its minute is            *)
(* (now \div 60) % 60 and its second is now % 60.                          *)
(***************************************************************************)
EXTENDS Integers, Sequences, FiniteSets, TLC

VARIABLES
    ver,             \* which script is running
    dev,             \* the register image of the meter (input)
    pc,              \* position of main() at its current await
    now,             \* wall clock, seconds
    data,            \* result of the last read_data() call
    data_buffer,     \* main: data_buffer (1.5, 1.55); the batch in flight elsewhere
    display_counter, \* main: display_counter
    next_save_time,  \* 1.56 main: next_save_time
    passes,          \* number of sampling passes started (bounded)
    sql_rows,        \* rows committed to Office_Readings
    sql_log,         \* one entry per save_to_sql call that ran to its end or was cancelled
    sink_fail_left,  \* attempts the SQL server will still fail (Forever: all)
    slow_left,       \* slow sink operations the environment may still cause
    faults_left,     \* passes with failing registers the environment may still cause
    csv_rows,        \* rows appended to the CSV file
    csv_log,         \* one entry per save_to_csv call
    backup_queue,    \* contents of a local backup store ('unsaved_data.json')
    sampled,         \* records appended to the buffer / handed to a sink by main
    failing,         \* decoder runs: addresses whose transport read fails
    kill_now,        \* 1.5: GracefulKiller.kill_now
    kill_seen,       \* 1.5: where main was when the signal handler ran (<<>>: not yet)
    serial_busy,     \* instrument calls running in worker threads
    serial_peak,     \* the largest serial_busy so far
    horizon,         \* the number of passes a run is followed for
    load_high,       \* the system load (psutil) is above the configured threshold
    csv_file,        \* save_to_csv calls at once: the file, [exists, lines]
    csv_tasks,       \* save_to_csv calls at once: the position and locals of each call
    loop_task        \* save_to_csv calls at once: the task the event loop runs (0: none)

vars == <<ver, dev, pc, now, data, data_buffer, display_counter,
          next_save_time, passes, sql_rows, sql_log, sink_fail_left, slow_left, faults_left, csv_rows, csv_log,
          backup_queue, sampled, failing, kill_now, kill_seen, serial_busy,
          serial_peak, horizon, load_high, csv_file, csv_tasks, loop_task>>

----------------------------------------------------------------------------
(* Bounds of the model *)

NumDevices == 2      \* register images the meter may hold
MaxFail == 2         \* decoder runs: registers failing in one pass (or all)
MaxFaults == 1       \* main loops: passes with failing registers per run
MaxSlow == 1         \* main loops: slow sink operations per run
MaxSinkFail == 2     \* SQL server: failing attempts before it recovers
MaxPasses155 == 7    \* passes of the 1.55 loop
MaxPasses156 == 2    \* passes of the 1.56 loop
MaxPasses15 == 4     \* passes of the 1.5 loop
LongRun15 == 31      \* passes of a long run of the 1.5 loop
LongRun155 == 13     \* passes of a long run of the 1.55 loop
SteadyRun155 == 31   \* passes of a run of the 1.55 loop without failures
MaxPasses16 == 4     \* passes of the 1.6 loop
MaxTime154 == 620    \* the 1.54 loop runs while now < MaxTime154
StartRange == 3600   \* 1.56 starts at any second of an hour
SlowSave == 70       \* seconds a slow sink operation takes (more than a minute)
ReadSeconds == 1     \* seconds the register reads of one pass take
MaxCsvBatch == 3     \* save_to_csv calls at once: records in a batch

(* Program constants *)

retry_attempts == 3      \* 1.54 DataManager.retry_attempts
SleepSeconds == 10       \* asyncio.sleep(10)
SqlFlushCount == 6       \* 1.55: len(data_buffer) >= 6
CsvFlushCount == 30      \* 1.55: len(data_buffer) >= 30
DisplayEvery == 12       \* display_counter >= 12
BoundaryMinutes == 10    \* 10-minute marks of 1.54 and 1.56

Forever == 0 - 1         \* sink_fail_left: the server never recovers

Versions == {"1.5", "1.54", "1.55", "1.56", "1.6"}

----------------------------------------------------------------------------
(* Python values *)

None == <<>>
Num(m, e) == <<m, e>>
Stamp(t) == <<t>>
EmptyDict == <<>>

Minute(t) == (t \div 60) % 60
Second(t) == t % 60

(* d[k] = v *)
SetItem(d, k, v) == [x \in (DOMAIN d) \cup {k} |-> IF x = k THEN v ELSE d[x]]

(* bool(d) of a dict (`if data:`): a dict is true iff it has a key *)
Truthy(d) == DOMAIN d # {}

----------------------------------------------------------------------------
(* The register transport: minimalmodbus.Instrument of the RX380 *)

Devices == 1..NumDevices

(* The 16-bit word the meter holds at an address.  The 32-bit quantities   *)
(* start at the even addresses (4018 and 4019 are 16-bit registers); their *)
(* high words stay below 16, which keeps every value a TLC integer.        *)
IsHighWord(a) == a % 2 = 0 /\ a # 4018
DeviceWord(d, a) ==
    LET w == (a * 257 * d + 9000 * (d - 1) + 31000) % 65536
    IN  IF IsHighWord(a) THEN w % 16 ELSE w

(* instrument.read_registers(address, 2, functioncode=4) *)
read_registers(d, a) == <<DeviceWord(d, a), DeviceWord(d, a + 1)>>

(* instrument.read_register(address, number_of_decimals, signed) *)
instrument_read_register(d, a, decimals, signed) ==
    LET w == DeviceWord(d, a)
    IN  Num(IF signed /\ w >= 32768 THEN w - 65536 ELSE w, decimals)

(* instrument.read_long(address, functioncode=4, signed=True) *)
instrument_read_long(d, a) ==
    LET raw == read_registers(d, a)
        hi == IF raw[1] >= 32768 THEN raw[1] - 65536 ELSE raw[1]
    IN  Num(hi * 65536 + raw[2], 0)

(* A register read returns [raised, v]: raised when the exception leaves   *)
(* the awaited call.                                                       *)
Ret(v) == [raised |-> FALSE, v |-> v]
Raise == [raised |-> TRUE, v |-> None]

(* a read_scaled_value without its try/except: the transport error leaves  *)
(* the helper                                                              *)
read_scaled_value_unguarded(d, fail, a, e) ==
    IF a \in fail
    THEN Raise
    ELSE LET raw_value == read_registers(d, a)
         IN  Ret(Num(raw_value[1] * 65536 + raw_value[2], e))

(* RX380.read_scaled_value(register_address, scale_factor), scale 10^-e:   *)
(* (raw[0] << 16 | raw[1]) * scale, or None when the transport fails.      *)
read_scaled_value(d, fail, a, e) ==
    IF a \in fail
    THEN Ret(None)
    ELSE LET raw_value == read_registers(d, a)
         IN  Ret(Num(raw_value[1] * 65536 + raw_value[2], e))

(* RX380.read_register(register_address, number_of_decimals, signed) *)
read_register(d, fail, a, decimals, signed) ==
    IF a \in fail
    THEN Ret(None)
    ELSE Ret(instrument_read_register(d, a, decimals, signed))

(* RX380.read_long(register_address) of 1.5 *)
read_long(d, fail, a) ==
    IF a \in fail THEN Ret(None) ELSE Ret(instrument_read_long(d, a))

(* await asyncio.to_thread(self.instrument.read_register, ...) written     *)
(* directly in read_data (1.5 lines 59-60, 1.54 lines 32-33): no try.      *)
bare_read_register(d, fail, a, decimals, signed) ==
    IF a \in fail
    THEN Raise
    ELSE Ret(instrument_read_register(d, a, decimals, signed))

R(name, addr, kind, e, signed) ==
    [name |-> name, addr |-> addr, kind |-> kind, e |-> e, signed |-> signed]

(* the assignments of RX380.read_data, in order *)
Regs155 == <<
    R("voltage_l1", 4034, "scaled", 1, FALSE),
    R("voltage_l2", 4036, "scaled", 1, FALSE),
    R("voltage_l3", 4038, "scaled", 1, FALSE),
    R("voltage_l12", 4028, "scaled", 1, FALSE),
    R("voltage_l23", 4030, "scaled", 1, FALSE),
    R("voltage_l31", 4032, "scaled", 1, FALSE),
    R("voltage_l12_max", 4124, "scaled", 1, FALSE),
    R("voltage_l23_max", 4128, "scaled", 1, FALSE),
    R("voltage_l31_max", 4132, "scaled", 1, FALSE),
    R("voltage_l12_min", 4212, "scaled", 1, FALSE),
    R("voltage_l23_min", 4216, "scaled", 1, FALSE),
    R("voltage_l31_min", 4220, "scaled", 1, FALSE),
    R("current_l1", 4020, "scaled", 3, FALSE),
    R("current_l2", 4022, "scaled", 3, FALSE),
    R("current_l3", 4024, "scaled", 3, FALSE),
    R("current_ln", 4026, "scaled", 3, FALSE),
    R("total_real_power", 4012, "scaled", 0, FALSE),
    R("total_apparent_power", 4014, "scaled", 0, FALSE),
    R("total_reactive_power", 4016, "scaled", 0, FALSE),
    R("total_power_factor", 4018, "register", 3, TRUE),
    R("frequency", 4019, "register", 2, FALSE),
    R("total_real_energy", 4002, "scaled", 0, FALSE),
    R("total_reactive_energy", 4010, "scaled", 0, FALSE),
    R("total_apparent_energy", 4006, "scaled", 0, FALSE) >>

Regs15 == <<
    R("voltage_l12", 4028, "scaled", 1, FALSE),
    R("voltage_l23", 4030, "scaled", 1, FALSE),
    R("voltage_l31", 4032, "scaled", 1, FALSE),
    R("voltage_l1", 4034, "scaled", 1, FALSE),
    R("voltage_l2", 4036, "scaled", 1, FALSE),
    R("voltage_l3", 4038, "scaled", 1, FALSE),
    R("current_l1", 4020, "scaled", 3, FALSE),
    R("current_l2", 4022, "scaled", 3, FALSE),
    R("current_l3", 4024, "scaled", 3, FALSE),
    R("total_real_power", 4012, "long", 0, TRUE),
    R("total_power_factor", 4018, "bare", 3, TRUE),
    R("frequency", 4019, "bare", 2, FALSE) >>

Regs154 == <<
    R("voltage_l1", 4034, "bare", 1, FALSE),
    R("voltage_l2", 4036, "bare", 1, FALSE) >>

Regs16 == <<
    R("voltage_l1", 4034, "scaled", 1, FALSE),
    R("current_l1", 4020, "scaled", 3, FALSE) >>

Regs(v) ==
    CASE v = "1.5" -> Regs15
      [] v = "1.54" -> Regs154
      [] v = "1.6" -> Regs16
      [] OTHER -> Regs155

Addresses(v) == {Regs(v)[i].addr : i \in 1..Len(Regs(v))}
FieldNames(v) == {Regs(v)[i].name : i \in 1..Len(Regs(v))}

(* one assignment of read_data: the right-hand side *)
ReadField(d, fail, r) ==
    CASE r.kind = "scaled" -> read_scaled_value(d, fail, r.addr, r.e)
      [] r.kind = "register" -> read_register(d, fail, r.addr, r.e, r.signed)
      [] r.kind = "long" -> read_long(d, fail, r.addr)
      [] OTHER -> bare_read_register(d, fail, r.addr, r.e, r.signed)

(* read_data has a try/except Exception returning None in every script but *)
(* 1.54, where the exception leaves read_data.                             *)
ReadDataCatches(v) == v # "1.54"

(* The result of read_data: kind "dict" with the dict d, kind "None", or   *)
(* kind "raise" when the exception propagates to the caller.               *)
RECURSIVE read_from(_, _, _, _, _)
read_from(v, d, fail, i, acc) ==
    IF i > Len(Regs(v))
    THEN [kind |-> "dict", d |-> acc]
    ELSE LET r == Regs(v)[i]
             res == ReadField(d, fail, r)
         IN  IF res.raised
             THEN [kind |-> IF ReadDataCatches(v) THEN "None" ELSE "raise",
                   d |-> EmptyDict]
             ELSE read_from(v, d, fail, i + 1, SetItem(acc, r.name, res.v))

read_data(v, d, fail) == read_from(v, d, fail, 1, EmptyDict)

NoData == [kind |-> "None", d |-> EmptyDict]

(* `if data:` in the main loops *)
IfData(res) == res.kind = "dict" /\ Truthy(res.d)

(* asyncio.to_thread(instrument call): the call starts in a worker thread *)
to_thread(busy) == busy + 1

(* a call that is started and not waited for *)
not_awaited(busy) == busy

(* `await`: main goes on when the call has returned or raised *)
awaited(busy) == busy - 1

Max(a, b) == IF a >= b THEN a ELSE b

(* The instrument calls of one read_data pass from register i on, each     *)
(* `await asyncio.to_thread(...)`: the calls running and their peak.  The  *)
(* pass ends with the read whose exception leaves read_data or is caught   *)
(* by its outer try.                                                       *)
RECURSIVE PassBus(_, _, _, _, _)
PassBus(v, d, fail, i, bus) ==
    IF i > Len(Regs(v))
    THEN bus
    ELSE LET issued == to_thread(bus.busy)
             after == [busy |-> awaited(issued),
                       peak |-> Max(bus.peak, issued)]
         IN  IF ReadField(d, fail, Regs(v)[i]).raised
             THEN after
             ELSE PassBus(v, d, fail, i + 1, after)

(* the effect of one read_data pass on the serial line *)
ReadBus(fail) ==
    LET bus == PassBus(ver, dev, fail, 1,
                       [busy |-> serial_busy, peak |-> serial_peak])
    IN  /\ serial_busy' = bus.busy
        /\ serial_peak' = bus.peak


----------------------------------------------------------------------------
(* The environment of a run *)

(* what no step of a main loop changes *)
callVars == <<csv_file, csv_tasks, loop_task>>
constVars == <<ver, dev, backup_queue, failing, horizon, load_high, callVars>>
envVars == <<slow_left, faults_left>>
sqlVars == <<sql_rows, sql_log, sink_fail_left>>
csvVars == <<csv_rows, csv_log>>
killVars == <<kill_now, kill_seen>>
busVars == <<serial_busy, serial_peak>>

RECURSIVE SubsetsUpTo(_, _)
SubsetsUpTo(S, k) ==
    IF k = 0
    THEN {{}}
    ELSE LET P == SubsetsUpTo(S, k - 1)
         IN  P \cup {T \cup {a} : T \in P, a \in S}

(* decoder runs: every set of at most MaxFail failing registers, and all *)
FailSets(v) == SubsetsUpTo(Addresses(v), MaxFail) \cup {Addresses(v)}

(* main loops: a pass is fault free, or loses one register of interest, or *)
(* all.  In 1.5, 1.55 and 1.56 the registers of interest are 4012          *)
(* (total_real_power, divided in save_to_sql) and 4028 (voltage_l12,       *)
(* formatted by the display step); elsewhere 4034 (voltage_l1) and 4018.   *)
(* In 1.5 a pass that loses all loses 4018, which is read without a try.   *)
FaultAddrs(v) ==
    IF v \in {"1.5", "1.55", "1.56"} THEN {4012, 4028} ELSE {4034, 4018}
FaultSets(v) ==
    {{a} : a \in Addresses(v) \cap FaultAddrs(v)} \cup {Addresses(v)}

PassFailSets(v) == {{}} \cup (IF faults_left > 0 THEN FaultSets(v) ELSE {})
SinkDurs == {0} \cup (IF slow_left > 0 THEN {SlowSave} ELSE {})

SpendFault(fail) ==
    faults_left' = IF fail = {} THEN faults_left ELSE faults_left - 1
SpendSlow(dur) ==
    slow_left' = IF dur = 0 THEN slow_left ELSE slow_left - 1

NoFile == [exists |-> FALSE, lines |-> <<>>]

(* main has constructed its objects; no save_to_csv call is in progress *)
InitProgram ==
    /\ data = NoData
    /\ data_buffer = <<>>
    /\ display_counter = 0
    /\ next_save_time = 0
    /\ passes = 0
    /\ sql_rows = <<>>
    /\ sql_log = <<>>
    /\ csv_rows = <<>>
    /\ csv_log = <<>>
    /\ sampled = {}
    /\ kill_now = FALSE
    /\ kill_seen = <<>>
    /\ serial_busy = 0
    /\ serial_peak = 0
    /\ csv_file = NoFile
    /\ csv_tasks = <<>>
    /\ loop_task = 0

(* no backup file on disk, and a system that is not loaded *)
InitCommon ==
    /\ InitProgram
    /\ backup_queue = <<>>
    /\ load_high = FALSE

----------------------------------------------------------------------------
(* The decoder alone: one sampling pass over every set of failing          *)
(* registers.                                                              *)

InitRead ==
    /\ InitCommon
    /\ horizon = 1
    /\ ver \in Versions
    /\ dev \in Devices
    /\ failing \in FailSets(ver)
    /\ pc = "decode"
    /\ now = 0
    /\ sink_fail_left = 0
    /\ slow_left = 0
    /\ faults_left = 0

DecodePass ==
    /\ pc = "decode"
    /\ data' = read_data(ver, dev, failing)
    /\ ReadBus(failing)
    /\ pc' = "decoded"
    /\ UNCHANGED <<constVars, killVars, envVars, sqlVars, csvVars, now,
                   data_buffer, display_counter, next_save_time, passes,
                   sampled>>

NextRead == DecodePass

SpecRead == InitRead /\ [][NextRead]_vars

----------------------------------------------------------------------------
(* DataManager.save_to_sql and save_to_csv *)

PowerKeys == {"total_real_power", "total_apparent_power", "total_reactive_power"}

(* the keys of the record the `values` tuple reads *)
SqlKeys(v) ==
    IF v = "1.6"
    THEN {"timestamp", "voltage_l1", "current_l1"}
    ELSE {"timestamp"} \cup FieldNames("1.55")

(* the keys whose value is divided by 1000 in the `values` tuple *)
DividedKeys(v) == IF v = "1.6" THEN {} ELSE PowerKeys

(* building `values` raises: KeyError on a missing key, TypeError on       *)
(* None / 1000                                                             *)
ValuesRaise(v, rec) ==
    \/ ~(SqlKeys(v) \subseteq DOMAIN rec)
    \/ \E k \in DividedKeys(v) : rec[k] = None

(* the row cursor.execute inserts: x / 1000 of m * 10^-e is m * 10^-(e+3) *)
Row(v, rec) ==
    [k \in SqlKeys(v) |->
        IF k \in DividedKeys(v) THEN Num(rec[k][1], rec[k][2] + 3) ELSE rec[k]]

(* The awaits at which the server may fail an attempt on a batch of n:     *)
(* 0 connect, k the k-th INSERT (the last is taken), n + 1 commit; -1 is   *)
(* an attempt the server does not fail.                                    *)
NoFail == 0 - 1
FailPoints(n) == {0, n, n + 1}
FpChoices(batch) ==
    IF sink_fail_left = 0 THEN {NoFail} ELSE FailPoints(Len(batch))

(* `for data in data_buffer:` from record i on, with the rows executed so  *)
(* far in the open transaction: the transaction, and whether building      *)
(* `values` or cursor.execute raised.                                      *)
RECURSIVE ExecuteFrom(_, _, _, _, _)
ExecuteFrom(v, batch, fp, i, tx) ==
    IF i > Len(batch)
    THEN [tx |-> tx, raised |-> FALSE]
    ELSE IF ValuesRaise(v, batch[i]) \/ fp = i
         THEN [tx |-> tx, raised |-> TRUE]
         ELSE ExecuteFrom(v, batch, fp, i + 1, Append(tx, Row(v, batch[i])))

(* a save_to_sql without the rollback of its except clause, on a           *)
(* connection that commits what was executed                               *)
save_to_sql_partial(v, batch, fp) ==
    IF fp = 0
    THEN [rows |-> <<>>, result |-> "error"]
    ELSE LET ex == ExecuteFrom(v, batch, fp, 1, <<>>)
         IN  IF ex.raised \/ fp = Len(batch) + 1
             THEN [rows |-> ex.tx, result |-> "error"]
             ELSE [rows |-> ex.tx, result |-> "ok"]

(* DataManager.save_to_sql(batch), the server failing at fp: the rows it   *)
(* commits and how it ends.  "error": the except clause logged (and, in    *)
(* 1.55 and 1.56, rolled the transaction back; elsewhere the connection is *)
(* closed with the transaction open, which discards it).  "raise": the     *)
(* finally clause of 1.6 evaluates `if conn:` with conn unbound when       *)
(* pymssql.connect raised, and UnboundLocalError leaves save_to_sql.       *)
save_to_sql(v, batch, fp) ==
    IF fp = 0
    THEN [rows |-> <<>>, result |-> IF v = "1.6" THEN "raise" ELSE "error"]
    ELSE LET ex == ExecuteFrom(v, batch, fp, 1, <<>>)
         IN  IF ex.raised \/ fp = Len(batch) + 1
             THEN [rows |-> <<>>, result |-> "error"]
             ELSE [rows |-> ex.tx, result |-> "ok"]

(* the effect of one save_to_sql call, over at clock t, on the server and   *)
(* on the log; a failing server has used up one failing attempt            *)
SqlCall(batch, fp, cancelled, t) ==
    LET res == save_to_sql(ver, batch, fp)
    IN  /\ sql_rows' = sql_rows \o res.rows
        /\ sql_log' = Append(sql_log, [batch |-> batch,
                                       committed |-> res.result = "ok",
                                       plan |-> sink_fail_left,
                                       cancelled |-> cancelled,
                                       at |-> t])
        /\ sink_fail_left' = IF sink_fail_left > 0 THEN sink_fail_left - 1
                             ELSE sink_fail_left

(* a save_to_sql call cancelled before its commit *)
SqlCancelled(batch, t) ==
    /\ sql_log' = Append(sql_log, [batch |-> batch, committed |-> FALSE,
                                   plan |-> sink_fail_left,
                                   cancelled |-> TRUE, at |-> t])
    /\ UNCHANGED <<sql_rows, sink_fail_left>>

(* save_to_csv(batch), over at clock t: mkdir, open and the writes either  *)
(* all succeed, or raise OSError before a row is written                   *)
CsvWrite(batch, ok, t) ==
    /\ csv_rows' = IF ok THEN csv_rows \o batch ELSE csv_rows
    /\ csv_log' = Append(csv_log, [batch |-> batch, ok |-> ok, at |-> t])

----------------------------------------------------------------------------
(* Rx380_watchdog_1.55.py: main *)

(* the fields the display step formats with :.1f, :.2f or :.3f; formatting *)
(* None raises TypeError                                                   *)
DisplayKeys(v) ==
    IF v = "1.5"
    THEN {"voltage_l12", "voltage_l23", "voltage_l31"}
    ELSE {"voltage_l12", "voltage_l23", "voltage_l31",
          "current_l1", "current_l2", "current_l3",
          "total_power_factor", "frequency"}

DisplayRaises(v, rec) == \E k \in DisplayKeys(v) : rec[k] = None

(* `if len(data_buffer) >= 30: await save_to_csv(data_buffer);             *)
(* data_buffer.clear()`, then the except clause and the end of the try:    *)
(* main is at `await asyncio.sleep(10)` either way.                        *)
CsvFlush155(buf) ==
    IF Len(buf) >= CsvFlushCount
    THEN \E ok \in BOOLEAN :
            /\ CsvWrite(buf, ok, now)
            /\ data_buffer' = IF ok THEN <<>> ELSE buf
    ELSE /\ data_buffer' = buf
         /\ UNCHANGED csvVars

(* `data = await rx380.read_data()` returns, and main runs to its next     *)
(* await: the save_to_sql call of line 219 or the sleep of line 232.       *)
Main155_Read ==
    /\ ver = "1.55"
    /\ pc = "read"
    /\ passes < horizon
    /\ passes' = passes + 1
    /\ now' = now + ReadSeconds
    /\ \E fail \in PassFailSets(ver) :
         LET res == read_data(ver, dev, fail)
             rec == SetItem(res.d, "timestamp", Stamp(now'))
             buf == Append(data_buffer, rec)
             dc == display_counter + 1
         IN  /\ SpendFault(fail)
             /\ ReadBus(fail)
             /\ data' = res
             /\ IF ~IfData(res)
                THEN /\ pc' = "sleep"
                     /\ UNCHANGED <<data_buffer, display_counter, sampled,
                                    csvVars>>
                ELSE /\ sampled' = sampled \cup {rec}
                     /\ IF dc >= DisplayEvery /\ DisplayRaises(ver, rec)
                        THEN /\ display_counter' = dc
                             /\ data_buffer' = buf
                             /\ pc' = "sleep"
                             /\ UNCHANGED csvVars
                        ELSE /\ display_counter' =
                                    IF dc >= DisplayEvery THEN 0 ELSE dc
                             /\ IF Len(buf) >= SqlFlushCount
                                THEN /\ data_buffer' = buf
                                     /\ pc' = "save_sql"
                                     /\ UNCHANGED csvVars
                                ELSE /\ CsvFlush155(buf)
                                     /\ pc' = "sleep"
    /\ UNCHANGED <<constVars, killVars, sqlVars, slow_left,
                   next_save_time>>

(* a flush that leaves the buffer as it is *)
Main155_SaveSql_keeps ==
    /\ ver = "1.55"
    /\ pc = "save_sql"
    /\ \E fp \in FpChoices(data_buffer) :
          SqlCall(data_buffer, fp, FALSE, now)
    /\ pc' = "sleep"
    /\ UNCHANGED <<constVars, killVars, busVars, envVars, csvVars, now, data,
                   data_buffer, display_counter, next_save_time, passes,
                   sampled>>

(* `await data_manager.save_to_sql(data_buffer)` returns: then             *)
(* data_buffer.clear(), the CSV test, and the sleep of line 232            *)
Main155_SaveSql ==
    /\ ver = "1.55"
    /\ pc = "save_sql"
    /\ \E dur \in SinkDurs :
          /\ now' = now + dur
          /\ SpendSlow(dur)
          /\ \E fp \in FpChoices(data_buffer) :
                SqlCall(data_buffer, fp, FALSE, now + dur)
    /\ CsvFlush155(<<>>)
    /\ pc' = "sleep"
    /\ UNCHANGED <<constVars, killVars, busVars, faults_left, data,
                   display_counter, next_save_time, passes, sampled>>

(* await asyncio.sleep(10) *)
Main155_Sleep ==
    /\ ver = "1.55"
    /\ pc = "sleep"
    /\ now' = now + SleepSeconds
    /\ pc' = "read"
    /\ UNCHANGED <<constVars, killVars, busVars, envVars, sqlVars, csvVars,
                   data, data_buffer, display_counter, next_save_time,
                   passes, sampled>>

(* The main task is cancelled at its current await.  CancelledError is not *)
(* an Exception: it leaves read_data and save_to_sql and reaches           *)
(* `except asyncio.CancelledError: pass`.  A save_to_sql cancelled at      *)
(* connect, execute or commit closes its connection with the transaction   *)
(* open; cancelled at cursor.close or conn.close it has committed.  The    *)
(* finally clause of main then runs                                        *)
(* asyncio.gather(save_to_csv(data_buffer), save_to_sql(data_buffer)) if   *)
(* the buffer is not empty: the save_to_csv task runs first and has no     *)
(* suspension point, the save_to_sql task runs to its connect.  When       *)
(* save_to_csv raised, gather raises in main, main ends, and asyncio.run   *)
(* cancels the save_to_sql task at that await.  A cancelled                *)
(* `await asyncio.to_thread(...)` does not stop its worker thread: the     *)
(* instrument call of a pass cancelled in read_data is still running.      *)
Main155_Cancel ==
    /\ ver = "1.55"
    /\ pc \in {"read", "save_sql", "sleep"}
    /\ \E late \in BOOLEAN, ok \in BOOLEAN :
          LET entry(committed) == [batch |-> data_buffer,
                                   committed |-> committed,
                                   plan |-> sink_fail_left,
                                   cancelled |-> TRUE, at |-> now]
              flushed == save_to_sql(ver, data_buffer, NoFail)
              log1 == IF pc = "save_sql"
                      THEN Append(sql_log, entry(late)) ELSE sql_log
          IN  /\ late => /\ pc = "save_sql"
                         /\ sink_fail_left = 0
                         /\ flushed.result = "ok"
              /\ sql_rows' = IF late THEN sql_rows \o flushed.rows
                             ELSE sql_rows
              /\ IF data_buffer = <<>>
                 THEN /\ ok
                      /\ pc' = "done"
                      /\ sql_log' = log1
                      /\ UNCHANGED csvVars
                 ELSE /\ CsvWrite(data_buffer, ok, now)
                      /\ pc' = IF ok THEN "final_flush" ELSE "crashed"
                      /\ sql_log' = IF ok THEN log1
                                    ELSE Append(log1, entry(FALSE))
    /\ serial_busy' = IF pc = "read" THEN to_thread(serial_busy)
                      ELSE serial_busy
    /\ serial_peak' = Max(serial_peak, serial_busy')
    /\ UNCHANGED <<constVars, killVars, envVars, sink_fail_left, now, data,
                   data_buffer, display_counter, next_save_time, passes,
                   sampled>>

(* the save_to_sql of the gather runs to its end: main logs and returns *)
Main155_FinalFlush ==
    /\ ver = "1.55"
    /\ pc = "final_flush"
    /\ \E fp \in FpChoices(data_buffer) :
          SqlCall(data_buffer, fp, FALSE, now)
    /\ pc' = "done"
    /\ UNCHANGED <<constVars, killVars, busVars, envVars, csvVars, now,
                   data, data_buffer, display_counter, next_save_time,
                   passes, sampled>>

Init155 ==
    /\ InitCommon
    /\ horizon = MaxPasses155
    /\ ver = "1.55"
    /\ dev = 1
    /\ failing = {}
    /\ pc = "read"
    /\ now = 0
    /\ sink_fail_left \in (0..MaxSinkFail) \cup {Forever}
    /\ slow_left = 0
    /\ faults_left = MaxFaults

(* a SQL server that answers, slowly at times *)
Init155Slow ==
    /\ InitCommon
    /\ horizon = MaxPasses155
    /\ ver = "1.55"
    /\ dev = 1
    /\ failing = {}
    /\ pc = "read"
    /\ now = 0
    /\ sink_fail_left = 0
    /\ slow_left = MaxSlow
    /\ faults_left = MaxFaults

(* a long run of the loop with a SQL server that answers *)
Init155Long ==
    /\ InitCommon
    /\ horizon = LongRun155
    /\ ver = "1.55"
    /\ dev = 1
    /\ failing = {}
    /\ pc = "read"
    /\ now = 0
    /\ sink_fail_left = 0
    /\ slow_left = 0
    /\ faults_left = MaxFaults

(* normal running, long enough for 30 records: the meter and the SQL       *)
(* server answer every call                                                *)
Init155Steady ==
    /\ InitCommon
    /\ horizon = SteadyRun155
    /\ ver = "1.55"
    /\ dev = 1
    /\ failing = {}
    /\ pc = "read"
    /\ now = 0
    /\ sink_fail_left = 0
    /\ slow_left = 0
    /\ faults_left = 0

Next155 ==
    \/ Main155_Read
    \/ Main155_SaveSql
    \/ Main155_Sleep
    \/ Main155_Cancel
    \/ Main155_FinalFlush

Spec155 == Init155 /\ [][Next155]_vars
Spec155Slow == Init155Slow /\ [][Next155]_vars
Spec155Long == Init155Long /\ [][Next155]_vars
Spec155Steady == Init155Steady /\ [][Next155]_vars

(* The system-load signal: psutil is imported (line 9) and no statement of *)
(* the script calls it.  The load rises above or falls below the threshold *)
(* at any time.                                                            *)
LoadChanges ==
    /\ ver = "1.55"
    /\ pc \in {"read", "save_sql", "sleep"}
    /\ load_high' = ~load_high
    /\ UNCHANGED <<ver, dev, backup_queue, failing, horizon, callVars,
                   killVars, busVars, envVars, sqlVars, csvVars, pc, now,
                   data, data_buffer, display_counter, next_save_time,
                   passes, sampled>>

(* a run on a system whose load changes; the SQL server answers *)
Init155Load ==
    /\ InitProgram
    /\ backup_queue = <<>>
    /\ load_high \in BOOLEAN
    /\ horizon = MaxPasses155
    /\ ver = "1.55"
    /\ dev = 1
    /\ failing = {}
    /\ pc = "read"
    /\ now = 0
    /\ sink_fail_left = 0
    /\ slow_left = 0
    /\ faults_left = MaxFaults

Next155Load == Next155 \/ LoadChanges

Spec155Load == Init155Load /\ [][Next155Load]_vars

----------------------------------------------------------------------------
(* Rx380_watchdog_1.56.py: main *)

(* x.replace(second=0, microsecond=0) *)
ReplaceSecond0(t) == t - Second(t)

(* a first trigger computed like the later ones: ten minutes after the     *)
(* start, seconds zeroed                                                   *)
FirstSaveTime_unaligned(t) == ReplaceSecond0(t + 60 * BoundaryMinutes)

(* line 193: (now + timedelta(minutes=10 - now.minute % 10))               *)
(*               .replace(second=0, microsecond=0)                         *)
FirstSaveTime(t) ==
    ReplaceSecond0(t + 60 * (BoundaryMinutes - (Minute(t) % BoundaryMinutes)))

(* a next save time without the ten minutes: the current minute *)
NextSaveTime_stale(t) == ReplaceSecond0(t)

(* line 216: (datetime.now() + timedelta(minutes=10))                      *)
(*               .replace(second=0, microsecond=0)                         *)
NextSaveTime(t) == ReplaceSecond0(t + 60 * BoundaryMinutes)

(* lines 192-194: the first next_save_time *)
Main156_Start ==
    /\ ver = "1.56"
    /\ pc = "start"
    /\ next_save_time' = FirstSaveTime(now)
    /\ pc' = "wait"
    /\ UNCHANGED <<constVars, killVars, busVars, envVars, sqlVars, csvVars,
                   now, data, data_buffer, display_counter, passes,
                   sampled>>

(* lines 198-201: wait_time = (next_save_time - now).total_seconds();      *)
(* asyncio.sleep(wait_time) if it is positive.  The sleep ends at          *)
(* next_save_time at the earliest.                                         *)
Main156_Wait ==
    /\ ver = "1.56"
    /\ pc = "wait"
    /\ passes < horizon
    /\ LET wait_time == next_save_time - now
       IN  now' = IF wait_time > 0 THEN now + wait_time ELSE now
    /\ pc' = "read"
    /\ UNCHANGED <<constVars, killVars, busVars, envVars, sqlVars, csvVars,
                   data, data_buffer, display_counter, next_save_time,
                   passes, sampled>>

(* line 204: `data = await rx380.read_data()` returns; with data, main     *)
(* stamps it and calls save_to_sql([data]); without, it loops              *)
Main156_Read ==
    /\ ver = "1.56"
    /\ pc = "read"
    /\ passes' = passes + 1
    /\ now' = now + ReadSeconds
    /\ \E fail \in PassFailSets(ver) :
         LET res == read_data(ver, dev, fail)
             rec == SetItem(res.d, "timestamp", Stamp(now'))
         IN  /\ SpendFault(fail)
             /\ ReadBus(fail)
             /\ data' = res
             /\ IF IfData(res)
                THEN /\ data_buffer' = <<rec>>
                     /\ sampled' = sampled \cup {rec}
                     /\ pc' = "save_sql"
                ELSE /\ pc' = "wait"
                     /\ UNCHANGED <<data_buffer, sampled>>
    /\ UNCHANGED <<constVars, killVars, sqlVars, csvVars, slow_left,
                   display_counter, next_save_time>>

(* line 211: save_to_sql([data]) runs to its end; main is then at          *)
(* `await save_to_csv(data)`                                               *)
Main156_SaveSql ==
    /\ ver = "1.56"
    /\ pc = "save_sql"
    /\ \E fp \in FpChoices(data_buffer), dur \in SinkDurs :
          /\ SqlCall(data_buffer, fp, FALSE, now + dur)
          /\ SpendSlow(dur)
          /\ now' = now + dur
    /\ pc' = "save_csv"
    /\ UNCHANGED <<constVars, killVars, busVars, csvVars, faults_left,
                   data, data_buffer, display_counter, next_save_time,
                   passes, sampled>>

(* lines 212-217: save_to_csv(data) ends; an exception it raises leaves    *)
(* the while loop and main (only CancelledError and KeyboardInterrupt are  *)
(* caught); otherwise the next save time is scheduled                      *)
Main156_SaveCsv ==
    /\ ver = "1.56"
    /\ pc = "save_csv"
    /\ \E ok \in BOOLEAN, dur \in SinkDurs :
          /\ CsvWrite(data_buffer, ok, now + dur)
          /\ SpendSlow(dur)
          /\ now' = now + dur
          /\ IF ok
             THEN /\ next_save_time' = NextSaveTime(now')
                  /\ pc' = "wait"
             ELSE /\ pc' = "crashed"
                  /\ UNCHANGED next_save_time
    /\ UNCHANGED <<constVars, killVars, busVars, sqlVars, faults_left,
                   data, data_buffer, display_counter, passes, sampled>>

Init156 ==
    /\ InitCommon
    /\ horizon = MaxPasses156
    /\ ver = "1.56"
    /\ dev = 1
    /\ failing = {}
    /\ pc = "start"
    /\ now \in 0..(StartRange - 1)
    /\ sink_fail_left \in (0..MaxSinkFail) \cup {Forever}
    /\ slow_left = MaxSlow
    /\ faults_left = MaxFaults

Next156 ==
    \/ Main156_Start
    \/ Main156_Wait
    \/ Main156_Read
    \/ Main156_SaveSql
    \/ Main156_SaveCsv

Spec156 == Init156 /\ [][Next156]_vars

----------------------------------------------------------------------------
(* Rx380_watchdog_1.54.py: main.  The loop is bounded by the clock         *)
(* (MaxTime154); it does not count its passes.                             *)

(* line 111: `data = await rx380.read_data()` returns or raises (read_data *)
(* has no try; main catches only CancelledError and KeyboardInterrupt).    *)
(* With data and datetime.now().minute % 10 == 0 the record is stamped and *)
(* save_to_sql(data) is called.  The inner `while datetime.now().minute %  *)
(* 10 != 0` of line 117 runs in the same instant as the test of line 115   *)
(* and never enters its body.                                              *)
Main154_Read ==
    /\ ver = "1.54"
    /\ pc = "read"
    /\ now < MaxTime154
    /\ now' = now + ReadSeconds
    /\ \E fail \in PassFailSets(ver) :
         LET res == read_data(ver, dev, fail)
             current_minute == Minute(now')
             rec == SetItem(res.d, "timestamp", Stamp(now'))
         IN  /\ SpendFault(fail)
             /\ ReadBus(fail)
             /\ data' = res
             /\ IF res.kind = "raise"
                THEN /\ pc' = "crashed"
                     /\ UNCHANGED <<data_buffer, sampled>>
                ELSE IF IfData(res) /\ current_minute % BoundaryMinutes = 0
                     THEN /\ data_buffer' = <<rec>>
                          /\ sampled' = sampled \cup {rec}
                          /\ pc' = "save_sql"
                     ELSE /\ pc' = "sleep"
                          /\ UNCHANGED <<data_buffer, sampled>>
    /\ UNCHANGED <<constVars, killVars, sqlVars, csvVars, slow_left,
                   display_counter, next_save_time, passes>>

(* line 123: save_to_sql(data) runs to its end *)
Main154_SaveSql ==
    /\ ver = "1.54"
    /\ pc = "save_sql"
    /\ \E fp \in FpChoices(data_buffer), dur \in SinkDurs :
          /\ SqlCall(data_buffer, fp, FALSE, now + dur)
          /\ SpendSlow(dur)
          /\ now' = now + dur
    /\ pc' = "save_csv"
    /\ UNCHANGED <<constVars, killVars, busVars, csvVars, faults_left,
                   data, data_buffer, display_counter, next_save_time,
                   passes, sampled>>

(* line 124: data_manager.save_to_csv(data), with save_csv=True (line 104) *)
Main154_SaveCsv ==
    /\ ver = "1.54"
    /\ pc = "save_csv"
    /\ \E ok \in BOOLEAN, dur \in SinkDurs :
          /\ CsvWrite(data_buffer, ok, now + dur)
          /\ SpendSlow(dur)
          /\ now' = now + dur
          /\ pc' = IF ok THEN "sleep" ELSE "crashed"
    /\ UNCHANGED <<constVars, killVars, busVars, sqlVars, faults_left,
                   data, data_buffer, display_counter, next_save_time,
                   passes, sampled>>

(* line 127: await asyncio.sleep(10) *)
Main154_Sleep ==
    /\ ver = "1.54"
    /\ pc = "sleep"
    /\ now' = now + SleepSeconds
    /\ pc' = "read"
    /\ UNCHANGED <<constVars, killVars, busVars, envVars, sqlVars, csvVars,
                   data, data_buffer, display_counter, next_save_time,
                   passes, sampled>>

(* 1.54 reads the clock only as minute % 10: it starts at any second of a  *)
(* 10-minute period                                                        *)
Init154 ==
    /\ InitCommon
    /\ horizon = 0
    /\ ver = "1.54"
    /\ dev = 1
    /\ failing = {}
    /\ pc = "read"
    /\ now \in 0..(60 * BoundaryMinutes - 1)
    /\ sink_fail_left \in {0, Forever}
    /\ slow_left = MaxSlow
    /\ faults_left = MaxFaults

Next154 ==
    \/ Main154_Read
    \/ Main154_SaveSql
    \/ Main154_SaveCsv
    \/ Main154_Sleep

Spec154 == Init154 /\ [][Next154]_vars

(* an entry of the backup file 'unsaved_data.json' (line 46) as the spec   *)
(* describes it: a record that was not delivered, ten minutes old at clock *)
(* 0, and the number of replay attempts made on it.  No statement of 1.54  *)
(* reads or writes the file.                                               *)
OldEntry ==
    [batch |-> <<SetItem(read_data("1.54", 1, {}).d, "timestamp",
                         Stamp(0 - 60 * BoundaryMinutes))>>,
     attempts |-> 0]

(* 1.54 starts with one undelivered entry in the backup file and a SQL     *)
(* server that answers                                                     *)
Init154Backup ==
    /\ InitProgram
    /\ backup_queue = <<OldEntry>>
    /\ load_high = FALSE
    /\ horizon = 0
    /\ ver = "1.54"
    /\ dev = 1
    /\ failing = {}
    /\ pc = "read"
    /\ now \in 0..(60 * BoundaryMinutes - 1)
    /\ sink_fail_left = 0
    /\ slow_left = 0
    /\ faults_left = MaxFaults

Spec154Backup == Init154Backup /\ [][Next154]_vars

(* the two boundary-aligned scripts *)
InitBoundary == Init154 \/ Init156
NextBoundary == Next154 \/ Next156
SpecBoundary == InitBoundary /\ [][NextBoundary]_vars

----------------------------------------------------------------------------
(* Rx380_IRIV_1.6.py: main *)

(* line 125: `data = await rx380.read_data()` returns; with data, main     *)
(* stamps it and calls save_to_sql([data])                                 *)
Main16_Read ==
    /\ ver = "1.6"
    /\ pc = "read"
    /\ passes < horizon
    /\ passes' = passes + 1
    /\ now' = now + ReadSeconds
    /\ \E fail \in PassFailSets(ver) :
         LET res == read_data(ver, dev, fail)
             rec == SetItem(res.d, "timestamp", Stamp(now'))
         IN  /\ SpendFault(fail)
             /\ ReadBus(fail)
             /\ data' = res
             /\ IF IfData(res)
                THEN /\ data_buffer' = <<rec>>
                     /\ sampled' = sampled \cup {rec}
                     /\ pc' = "save_sql"
                ELSE /\ pc' = "sleep"
                     /\ UNCHANGED <<data_buffer, sampled>>
    /\ UNCHANGED <<constVars, killVars, sqlVars, csvVars, slow_left,
                   display_counter, next_save_time>>

(* line 128: save_to_sql([data]) returns, or raises: main has no try, and  *)
(* the exception ends main and the process                                 *)
Main16_SaveSql ==
    /\ ver = "1.6"
    /\ pc = "save_sql"
    /\ \E fp \in FpChoices(data_buffer) :
          /\ SqlCall(data_buffer, fp, FALSE, now)
          /\ pc' = IF save_to_sql(ver, data_buffer, fp).result = "raise"
                   THEN "crashed" ELSE "sleep"
    /\ UNCHANGED <<constVars, killVars, busVars, envVars, csvVars, now,
                   data, data_buffer, display_counter, next_save_time,
                   passes, sampled>>

(* line 129: await asyncio.sleep(10) *)
Main16_Sleep ==
    /\ ver = "1.6"
    /\ pc = "sleep"
    /\ now' = now + SleepSeconds
    /\ pc' = "read"
    /\ UNCHANGED <<constVars, killVars, busVars, envVars, sqlVars, csvVars,
                   data, data_buffer, display_counter, next_save_time,
                   passes, sampled>>

Init16 ==
    /\ InitCommon
    /\ horizon = MaxPasses16
    /\ ver = "1.6"
    /\ dev = 1
    /\ failing = {}
    /\ pc = "read"
    /\ now = 0
    /\ sink_fail_left \in (0..MaxSinkFail) \cup {Forever}
    /\ slow_left = 0
    /\ faults_left = MaxFaults

Next16 ==
    \/ Main16_Read
    \/ Main16_SaveSql
    \/ Main16_Sleep

Spec16 == Init16 /\ [][Next16]_vars

----------------------------------------------------------------------------
(* Rx380_watchdog_1.5.py: main *)

(* a loop that does not look at kill_now *)
LoopCondition_forever(kill) == TRUE

(* line 111: `while not killer.kill_now` *)
LoopCondition(kill) == ~kill

(* `data = await rx380.read_data()` returns, and main runs to the sleep of *)
(* line 139: it stamps and appends the record, displays every 12th, and    *)
(* with len(data_buffer) == 30 calls save_to_csv, which has no suspension  *)
(* point, and rebinds data_buffer to [].  An exception of the display step *)
(* or of save_to_csv is caught at line 135 and skips what follows it.      *)
Main15_Read ==
    /\ ver = "1.5"
    /\ pc = "read"
    /\ passes' = passes + 1
    /\ now' = now + ReadSeconds
    /\ \E fail \in PassFailSets(ver) :
         LET res == read_data(ver, dev, fail)
             rec == SetItem(res.d, "timestamp", Stamp(now'))
             buf == Append(data_buffer, rec)
             dc == display_counter + 1
         IN  /\ SpendFault(fail)
             /\ ReadBus(fail)
             /\ data' = res
             /\ IF ~IfData(res)
                THEN UNCHANGED <<data_buffer, display_counter, sampled,
                                 csvVars>>
                ELSE /\ sampled' = sampled \cup {rec}
                     /\ IF dc >= DisplayEvery /\ DisplayRaises(ver, rec)
                        THEN /\ display_counter' = dc
                             /\ data_buffer' = buf
                             /\ UNCHANGED csvVars
                        ELSE /\ display_counter' =
                                    IF dc >= DisplayEvery THEN 0 ELSE dc
                             /\ IF Len(buf) = CsvFlushCount
                                THEN \E ok \in BOOLEAN :
                                        /\ CsvWrite(buf, ok, now')
                                        /\ data_buffer' =
                                              IF ok THEN <<>> ELSE buf
                                ELSE /\ data_buffer' = buf
                                     /\ UNCHANGED csvVars
    /\ pc' = "sleep"
    /\ UNCHANGED <<constVars, killVars, sqlVars, slow_left, next_save_time>>

(* line 139: asyncio.sleep(10) returns; line 111 tests kill_now, and main  *)
(* starts the next pass or leaves the loop for the finally clause          *)
Main15_Sleep ==
    /\ ver = "1.5"
    /\ pc = "sleep"
    /\ now' = now + SleepSeconds
    /\ IF LoopCondition(kill_now)
       THEN /\ passes < horizon
            /\ pc' = "read"
       ELSE pc' = "done"
    /\ UNCHANGED <<constVars, killVars, busVars, envVars, sqlVars, csvVars,
                   data, data_buffer, display_counter, next_save_time,
                   passes, sampled>>

(* SIGINT or SIGTERM: GracefulKiller.exit_gracefully sets kill_now *)
Signal15 ==
    /\ ver = "1.5"
    /\ pc \in {"read", "sleep"}
    /\ ~kill_now
    /\ kill_now' = TRUE
    /\ kill_seen' = <<[pc |-> pc, passes |-> passes]>>
    /\ UNCHANGED <<constVars, busVars, envVars, sqlVars, csvVars, pc, now,
                   data, data_buffer, display_counter, next_save_time,
                   passes, sampled>>

Init15 ==
    /\ InitCommon
    /\ horizon = MaxPasses15
    /\ ver = "1.5"
    /\ dev = 1
    /\ failing = {}
    /\ pc = "read"
    /\ now = 0
    /\ sink_fail_left = 0
    /\ slow_left = 0
    /\ faults_left = MaxFaults

(* a long run of the loop, on a meter that answers every read *)
Init15Long ==
    /\ InitCommon
    /\ horizon = LongRun15
    /\ ver = "1.5"
    /\ dev = 1
    /\ failing = {}
    /\ pc = "read"
    /\ now = 0
    /\ sink_fail_left = 0
    /\ slow_left = 0
    /\ faults_left = 0

Next15 ==
    \/ Main15_Read
    \/ Main15_Sleep
    \/ Signal15

Spec15 == Init15 /\ [][Next15]_vars
Spec15Long == Init15Long /\ [][Next15]_vars

(* line 114 as a step of main alone: the awaited read_data returns, and    *)
(* main is at the sleep of line 139 (every Main15_Read step, and no other) *)
ReadReturns15 == ver = "1.5" /\ pc = "read" /\ pc' = "sleep"

(* the awaited read_data and asyncio.sleep return: every instrument call   *)
(* ends within the serial timeout of 1 s, and the sleep lasts 10 s         *)
Spec15Fair == Spec15 /\ WF_pc(ReadReturns15) /\ WF_vars(Main15_Sleep)

----------------------------------------------------------------------------
(* Rx380_watchdog_1.55.py: save_to_csv, two calls at once.  The calls are  *)
(* two tasks of the one event loop (asyncio.run(main)): a task runs until  *)
(* an await suspends it or it ends, and only then another task runs.       *)
(* save_to_csv of 1.5 has the same steps.                                  *)

CsvTasks == {1, 2}

(* a line of the file: the header or a row, and the call that wrote it (0: *)
(* a call that ended before)                                               *)
HeaderLine(t) == [kind |-> "header", by |-> t]
RowLine(t) == [kind |-> "row", by |-> t]

(* today's file as an earlier call left it *)
OldFile == [exists |-> TRUE, lines |-> <<HeaderLine(0), RowLine(0)>>]

(* `await lock.acquire()` of asyncio.Lock suspends the task always *)
Suspends_always(locked) == TRUE

(* `await lock.acquire()` of asyncio.Lock returns without suspending the   *)
(* task when the lock is free                                              *)
Suspends(locked) == locked

(* line 172: asyncio.Lock() is a new lock at every call, and free *)
NewLockLocked == FALSE

(* the event loop runs task t: it is the running task, or no task runs and *)
(* t is ready                                                              *)
Runs(t, at) ==
    /\ ver = "1.55"
    /\ pc = "csv_calls"
    /\ loop_task \in {0, t}
    /\ csv_tasks[t].pc = at

mainVars == <<ver, dev, pc, now, data, data_buffer, display_counter,
              next_save_time, passes, sqlVars, envVars, csv_rows, csv_log,
              backup_queue, sampled, failing, killVars, busVars, horizon,
              load_high>>

(* lines 164-170: mkdir, filename, file_exists = filename.is_file() *)
Csv_IsFile(t) ==
    /\ Runs(t, "called")
    /\ csv_tasks' = [csv_tasks EXCEPT ![t].file_exists = csv_file.exists,
                                      ![t].pc = "lock"]
    /\ loop_task' = t
    /\ UNCHANGED <<mainVars, csv_file>>

(* line 172: async with asyncio.Lock() *)
Csv_Acquire(t) ==
    /\ Runs(t, "lock")
    /\ csv_tasks' = [csv_tasks EXCEPT ![t].pc = "open"]
    /\ loop_task' = IF Suspends(NewLockLocked) THEN 0 ELSE t
    /\ UNCHANGED <<mainVars, csv_file>>

(* line 173: open(filename, 'a') creates the file when it is absent *)
Csv_Open(t) ==
    /\ Runs(t, "open")
    /\ csv_file' = [csv_file EXCEPT !.exists = TRUE]
    /\ csv_tasks' = [csv_tasks EXCEPT ![t].pc = "header"]
    /\ loop_task' = t
    /\ UNCHANGED mainVars

(* lines 177-178: if not file_exists: writer.writeheader() *)
Csv_Header(t) ==
    /\ Runs(t, "header")
    /\ csv_file' = IF csv_tasks[t].file_exists
                   THEN csv_file
                   ELSE [csv_file EXCEPT !.lines = Append(@, HeaderLine(t))]
    /\ csv_tasks' = [csv_tasks EXCEPT ![t].pc = "rows"]
    /\ loop_task' = t
    /\ UNCHANGED mainVars

(* lines 180-181: for data in data_buffer: writer.writerow(data) *)
Csv_Row(t) ==
    /\ Runs(t, "rows")
    /\ csv_tasks[t].written < csv_tasks[t].n
    /\ csv_file' = [csv_file EXCEPT !.lines = Append(@, RowLine(t))]
    /\ csv_tasks' = [csv_tasks EXCEPT ![t].written = @ + 1]
    /\ loop_task' = t
    /\ UNCHANGED mainVars

(* the end of both with blocks (file closed, lock released), line 183, and *)
(* the task ends                                                           *)
Csv_Close(t) ==
    /\ Runs(t, "rows")
    /\ csv_tasks[t].written = csv_tasks[t].n
    /\ csv_tasks' = [csv_tasks EXCEPT ![t].pc = "done"]
    /\ loop_task' = 0
    /\ UNCHANGED <<mainVars, csv_file>>

(* two calls with batches of 1..MaxCsvBatch records, created and not yet   *)
(* run; today's file is absent or was written by an earlier call           *)
InitCsv ==
    /\ data = NoData
    /\ data_buffer = <<>>
    /\ display_counter = 0
    /\ next_save_time = 0
    /\ passes = 0
    /\ sql_rows = <<>>
    /\ sql_log = <<>>
    /\ csv_rows = <<>>
    /\ csv_log = <<>>
    /\ sampled = {}
    /\ kill_now = FALSE
    /\ kill_seen = <<>>
    /\ serial_busy = 0
    /\ serial_peak = 0
    /\ backup_queue = <<>>
    /\ load_high = FALSE
    /\ horizon = 0
    /\ ver = "1.55"
    /\ dev = 1
    /\ failing = {}
    /\ pc = "csv_calls"
    /\ now = 0
    /\ sink_fail_left = 0
    /\ slow_left = 0
    /\ faults_left = 0
    /\ csv_file \in {NoFile, OldFile}
    /\ \E n1, n2 \in 1..MaxCsvBatch :
          csv_tasks = [t \in CsvTasks |->
                          [pc |-> "called", file_exists |-> FALSE,
                           n |-> IF t = 1 THEN n1 ELSE n2, written |-> 0]]
    /\ loop_task = 0

NextCsv ==
    \E t \in CsvTasks :
        \/ Csv_IsFile(t)
        \/ Csv_Acquire(t)
        \/ Csv_Open(t)
        \/ Csv_Header(t)
        \/ Csv_Row(t)
        \/ Csv_Close(t)

SpecCsv == InitCsv /\ [][NextCsv]_vars

----------------------------------------------------------------------------
(* The five scripts together *)

Init == Init15 \/ Init154 \/ Init155 \/ Init156 \/ Init16
Next == Next15 \/ Next154 \/ Next155 \/ Next156 \/ Next16
Spec == Init /\ [][Next]_vars

----------------------------------------------------------------------------
(* Properties *)

Range(q) == {q[i] : i \in DOMAIN q}

InBuffer(r) == r \in Range(data_buffer)
Committed(r) == \E i \in DOMAIN sql_rows : sql_rows[i]["timestamp"] = r["timestamp"]
InBackup(r) == \E i \in DOMAIN backup_queue : r \in Range(backup_queue[i].batch)

(* the value a field holds after a pass in which no read failed *)
FaultFree(v, d, name) == read_data(v, d, {}).d[name]

(* a wall-clock instant whose minute is a multiple of 10 and whose second  *)
(* is 0                                                                    *)
IsBoundary(t) == Minute(t) % BoundaryMinutes = 0 /\ Second(t) = 0

(* the number of rows of the SQL table that carry the timestamp of r *)
RowsOf(r) ==
    Cardinality({k \in DOMAIN sql_rows :
                    sql_rows[k]["timestamp"] = r["timestamp"]})

(* C1: no batch is silently dropped by the flush of the main loop of 1.55  *)
(* (save_to_sql, then data_buffer.clear()).  A batch whose save_to_sql     *)
(* failed is in the backup queue exactly once, with attempts = 3; every    *)
(* sampled record is in the buffer, committed to the SQL sink, or in the   *)
(* backup queue.                                                           *)
C1_NoBatchDropped ==
    (ver = "1.55" /\ pc \in {"read", "save_sql", "sleep"}) =>
        /\ \A i \in DOMAIN sql_log :
              (~sql_log[i].committed /\ ~sql_log[i].cancelled) =>
                 Cardinality({j \in DOMAIN backup_queue :
                                 /\ backup_queue[j].batch = sql_log[i].batch
                                 /\ backup_queue[j].attempts = retry_attempts}) = 1
        /\ \A r \in sampled : InBuffer(r) \/ Committed(r) \/ InBackup(r)

(* C2: a failed SQL write is retried up to retry_attempts = 3 times.  Once *)
(* main has ended, a batch of 3 records that save_to_sql could insert,     *)
(* handed over while the server fails its next 2 attempts and then         *)
(* succeeds, has been delivered: each of its 3 records is one row of the   *)
(* table, and no backup entry remains.                                     *)
C2_RetriedUntilDelivered ==
    (ver = "1.55" /\ pc = "done") =>
       \A i \in DOMAIN sql_log :
          LET e == sql_log[i]
          IN  (/\ e.plan = retry_attempts - 1
               /\ Len(e.batch) = 3
               /\ ~e.cancelled
               /\ \A j \in DOMAIN e.batch : ~ValuesRaise(ver, e.batch[j]))
              => /\ \A j \in DOMAIN e.batch : RowsOf(e.batch[j]) = 1
                 /\ backup_queue = <<>>

(* C3: in read_data of 1.55, 1.56 and 1.6, whatever registers fail, the    *)
(* record has every configured field, the failed fields are None, and      *)
(* every other field holds the value of a pass without failures (which is  *)
(* a number): a failure does not abort the reads after it.                 *)
C3_PartialDecode ==
    (pc = "decoded" /\ ver \in {"1.55", "1.56", "1.6"}) =>
        LET clean == read_data(ver, dev, {}).d
        IN  /\ data.kind = "dict"
            /\ DOMAIN data.d = FieldNames(ver)
            /\ \A i \in 1..Len(Regs(ver)) :
                  LET r == Regs(ver)[i]
                  IN  IF r.addr \in failing
                      THEN data.d[r.name] = None
                      ELSE /\ data.d[r.name] = clean[r.name]
                           /\ data.d[r.name] # None

(* a pass of 1.55 lost its first register and the power factor register,   *)
(* and still read the frequency after them                                 *)
C3_Witness ==
    /\ pc = "decoded"
    /\ ver = "1.55"
    /\ failing = {4034, 4018}
    /\ data.kind = "dict"
    /\ data.d["voltage_l1"] = None
    /\ data.d["total_power_factor"] = None
    /\ data.d["frequency"] # None
    /\ data.d["total_apparent_energy"] # None

(* C4: in read_data of 1.5 and 1.54 a transport error on one register      *)
(* surfaces only as an absent field: the pass returns a record with the    *)
(* values of all other registers.                                          *)
C4_SingleFailureAbsentField ==
    (pc = "decoded" /\ ver \in {"1.5", "1.54"} /\ Cardinality(failing) = 1) =>
        /\ data.kind = "dict"
        /\ DOMAIN data.d = FieldNames(ver)
        /\ \A i \in 1..Len(Regs(ver)) :
              LET r == Regs(ver)[i]
              IN  data.d[r.name] = IF r.addr \in failing THEN None
                                   ELSE FaultFree(ver, dev, r.name)

(* C5: a pass in which every field is absent is never appended to the      *)
(* buffer and never handed to a sink.                                      *)
C5_AllAbsentNeverBuffered ==
    \A r \in sampled : \E k \in FieldNames(ver) : r[k] # None

(* C6, as claimed: the first pass of 1.56 does not start before the next   *)
(* 10-minute boundary after the start, and in 1.54 no record is written to *)
(* a sink while the minute is not a multiple of 10.                        *)
C6_NoWriteOffBoundary ==
    /\ (ver = "1.56" /\ passes = 0 /\ pc = "wait") =>
          (next_save_time > now /\ IsBoundary(next_save_time))
    /\ (ver = "1.56" /\ passes = 0 /\ pc = "read") => now >= next_save_time
    /\ ver = "1.54" =>
          /\ \A i \in DOMAIN csv_log :
                csv_log[i].ok => Minute(csv_log[i].at) % 10 = 0
          /\ \A i \in DOMAIN sql_log :
                sql_log[i].committed => Minute(sql_log[i].at) % 10 = 0

(* C6, amended: the first pass of 1.56 does not start before the next      *)
(* 10-minute boundary after the start (the first next_save_time is the     *)
(* boundary instant that follows the start by at most 10 minutes, and the  *)
(* pass starts no earlier); in 1.54 every record handed to a sink carries  *)
(* a timestamp whose minute is a multiple of 10.                           *)
C6_FirstTriggerOnBoundary ==
    /\ (ver = "1.56" /\ passes = 0 /\ pc = "wait") =>
          /\ next_save_time > now
          /\ next_save_time - now <= 60 * 10
          /\ IsBoundary(next_save_time)
    /\ (ver = "1.56" /\ passes = 0 /\ pc = "read") =>
          (now >= next_save_time /\ IsBoundary(next_save_time))
    /\ ver = "1.54" =>
          /\ \A r \in sampled : Minute(r["timestamp"][1]) % 10 = 0
          /\ \A i \in DOMAIN csv_rows :
                Minute(csv_rows[i]["timestamp"][1]) % 10 = 0
          /\ \A i \in DOMAIN sql_log :
                \A j \in DOMAIN sql_log[i].batch :
                   Minute(sql_log[i].batch[j]["timestamp"][1]) % 10 = 0

(* 1.56 is about to start its first pass, on the 10-minute mark it waited  *)
(* for                                                                     *)
C6_Witness ==
    /\ ver = "1.56"
    /\ passes = 0
    /\ pc = "read"
    /\ now = next_save_time
    /\ Minute(now) = 10
    /\ Second(now) = 0

(* C7: in 1.56 every value assigned to next_save_time is a wall-clock      *)
(* 10-minute boundary, whatever the passes and their saves last.           *)
C7_EveryTriggerOnBoundary ==
    (ver = "1.56" /\ pc # "start") => IsBoundary(next_save_time)

(* C8: a save_to_csv that raised is confined to the CSV sink: the same     *)
(* batch is submitted to save_to_sql, which runs to its end, and main is   *)
(* not ended by the exception.                                             *)
C8_CsvFailureConfined ==
    \A i \in DOMAIN csv_log :
       ~csv_log[i].ok =>
          /\ pc # "crashed"
          /\ \E j \in DOMAIN sql_log :
                sql_log[j].batch = csv_log[i].batch /\ ~sql_log[j].cancelled

(* C9: in 1.6 no SQL error is fatal: after any save_to_sql failure the     *)
(* main loop is still running.                                             *)
C9_SinkErrorNotFatal ==
    ver = "1.6" => pc \in {"read", "save_sql", "sleep"}

(* C10: when the main loop of 1.55 is cancelled with records in the        *)
(* buffer, every such record is submitted to the CSV sink and to the SQL   *)
(* sink (a save_to_sql call that runs to its end) before main ends.        *)
C10_ShutdownFlush ==
    (ver = "1.55" /\ pc \in {"done", "crashed"} /\ data_buffer # <<>>) =>
        /\ csv_log # <<>>
        /\ csv_log[Len(csv_log)].batch = data_buffer
        /\ sql_log # <<>>
        /\ sql_log[Len(sql_log)].batch = data_buffer
        /\ ~sql_log[Len(sql_log)].cancelled

(* C11: in 1.5, when a signal has set kill_now with 1..29 records in       *)
(* data_buffer, those records are in the CSV file when main has ended.     *)
C11_BufferWrittenAtShutdown ==
    (ver = "1.5" /\ pc = "done" /\ Len(data_buffer) \in 1..(CsvFlushCount - 1))
        => \A i \in DOMAIN data_buffer : data_buffer[i] \in Range(csv_rows)

(* C12: in 1.5, once kill_now is set no new sampling pass is started: only *)
(* a pass in flight when the signal arrived is completed; and kill_now     *)
(* leads to the end of main.                                               *)
C12_KillStopsLoop ==
    /\ [](kill_now =>
            passes <= kill_seen[1].passes
                        + (IF kill_seen[1].pc = "read" THEN 1 ELSE 0))
    /\ (kill_now ~> pc = "done")

(* the signal arrived during the third pass, which was completed, and main *)
(* has ended                                                               *)
C12_Witness ==
    /\ ver = "1.5"
    /\ pc = "done"
    /\ kill_now
    /\ Len(kill_seen) = 1
    /\ kill_seen[1].pc = "read"
    /\ kill_seen[1].passes = 2
    /\ passes = 3

(* C20: in 1.5 a flush to CSV is attempted whenever the buffer reaches the *)
(* threshold, so data_buffer never holds more than 30 records, whatever    *)
(* the outcomes of the CSV writes and of the display step.                 *)
C20_BufferBounded15 ==
    ver = "1.5" => Len(data_buffer) <= CsvFlushCount

(* C13: single flight on the serial line.  In every script at most one     *)
(* instrument call is running at any time: each read of a pass is awaited  *)
(* before the next is issued, one pass ends before the next begins, and no *)
(* read is issued during a flush or the shutdown flush.                    *)
C13_SingleFlight ==
    serial_busy <= 1 /\ serial_peak <= 1

(* a pass of 1.55 was cancelled inside read_data, its instrument call is   *)
(* still running, and the shutdown flush has run                           *)
C13_Witness ==
    /\ ver = "1.55"
    /\ pc = "done"
    /\ passes >= 2
    /\ serial_busy = 1
    /\ serial_peak = 1
    /\ data_buffer # <<>>
    /\ csv_log # <<>>
    /\ sql_log # <<>>

TimeOf(r) == r["timestamp"][1]
LastTime(batch) == TimeOf(batch[Len(batch)])

(* the save_to_sql calls before the i-th that returned to main, which then *)
(* emptied the buffer                                                      *)
FlushesBefore(i) == {j \in 1..(i - 1) : ~sql_log[j].cancelled}

(* the timestamp of the last record flushed before the i-th call *)
FlushedUpTo(i) ==
    IF FlushesBefore(i) = {}
    THEN 0 - 1
    ELSE LET j == CHOOSE j \in FlushesBefore(i) :
                     \A k \in FlushesBefore(i) : k <= j
         IN  LastTime(sql_log[j].batch)

(* C14: the flush of 1.55 is atomic.  The batch of every save_to_sql call  *)
(* is exactly the records sampled since the previous flush (the previous   *)
(* call that returned to main, which then emptied the buffer), in sampling *)
(* order; no record sampled after the call began is in it; and the buffer  *)
(* holds exactly the records sampled since the last flush.                 *)
C14_FlushAtomic ==
    ver = "1.55" =>
       /\ \A i \in DOMAIN sql_log :
             LET batch == sql_log[i].batch
             IN  /\ batch # <<>>
                 /\ \A j \in 1..(Len(batch) - 1) :
                       TimeOf(batch[j]) < TimeOf(batch[j + 1])
                 /\ Range(batch) =
                       {r \in sampled : /\ TimeOf(r) > FlushedUpTo(i)
                                        /\ TimeOf(r) <= LastTime(batch)}
                 /\ LastTime(batch) <= sql_log[i].at
       /\ pc \in {"read", "save_sql", "sleep"} =>
             Range(data_buffer) =
                {r \in sampled : TimeOf(r) > FlushedUpTo(Len(sql_log) + 1)}

(* two flushes of 1.55 have run to their end, the second with the records  *)
(* sampled after the first                                                 *)
C14_Witness ==
    /\ ver = "1.55"
    /\ pc = "sleep"
    /\ Len(sql_log) = 2
    /\ ~sql_log[1].cancelled
    /\ ~sql_log[2].cancelled
    /\ Len(sql_log[2].batch) >= SqlFlushCount
    /\ TimeOf(sql_log[2].batch[1]) > LastTime(sql_log[1].batch)
    /\ data_buffer = <<>>

(* C15: in 1.55 a batch whose write was committed is never submitted       *)
(* again: no record is committed to the SQL table by more than one         *)
(* save_to_sql call, for every interleaving of the flush with a            *)
(* cancellation and the shutdown flush.                                    *)
C15_NoDuplicateCommit ==
    ver = "1.55" => \A r \in sampled : RowsOf(r) <= 1

(* C16: the timestamp of a record is the clock at the instant its sampling *)
(* pass began, before the first register read, in the main loops of 1.55,  *)
(* 1.56 and 1.6.                                                           *)
C16_StampAtPassStart ==
    [][(ver \in {"1.55", "1.56", "1.6"}) =>
          (\A r \in (sampled' \ sampled) : r["timestamp"] = Stamp(now))]_vars

(* C19: in 1.55 and 1.56, with a healthy SQL server, a batch in which      *)
(* every record has at least one decoded field is written, even when other *)
(* fields of a record (total_real_power, total_apparent_power or           *)
(* total_reactive_power among them) are None.                              *)
C19_PartialRecordDelivered ==
    ver \in {"1.55", "1.56"} =>
       \A i \in DOMAIN sql_log :
          LET e == sql_log[i]
          IN  (/\ e.plan = 0
               /\ ~e.cancelled
               /\ \A j \in DOMAIN e.batch :
                     \E k \in FieldNames(ver) : e.batch[j][k] # None)
              => /\ e.committed
                 /\ \A j \in DOMAIN e.batch : RowsOf(e.batch[j]) >= 1

(* C17: in 1.55 flushing is decoupled from sampling: a slow save_to_sql    *)
(* never delays the start of the next pass.  Every pass starts at its      *)
(* trigger instant, asyncio.sleep(10) after the reads of the previous      *)
(* pass, so every record is stamped on the grid of the pass period.        *)
C17_FlushDoesNotDelayPass ==
    ver = "1.55" =>
       \A r \in sampled :
          (TimeOf(r) - ReadSeconds) % (ReadSeconds + SleepSeconds) = 0

(* C18: in 1.54 and 1.56 each 10-minute interval yields at most one record *)
(* handed to the SQL and CSV sinks.                                        *)
C18_OneRecordPerBoundary ==
    ver \in {"1.54", "1.56"} =>
       \A r1, r2 \in sampled :
          (TimeOf(r1) \div (60 * BoundaryMinutes)
              = TimeOf(r2) \div (60 * BoundaryMinutes)) => r1 = r2

(* In the lock-holding part of save_to_csv: from the acquire of line 172   *)
(* to the end of the with block                                            *)
InSection(t) == csv_tasks[t].pc \in {"open", "header", "rows"}

HeaderLines == {i \in DOMAIN csv_file.lines : csv_file.lines[i].kind = "header"}

(* C21: two save_to_csv calls of 1.55 at once on the same file are         *)
(* serialized: the two calls are never both inside their file-writing      *)
(* section, the lines of one call are never between lines of the other,    *)
(* and a file with lines has exactly one header, its first line.           *)
C21_CsvSerialized ==
    (ver = "1.55" /\ pc = "csv_calls") =>
        /\ ~(InSection(1) /\ InSection(2))
        /\ \A i, j, k \in DOMAIN csv_file.lines :
              (i < j /\ j < k /\ csv_file.lines[i].by = csv_file.lines[k].by)
                 => csv_file.lines[j].by = csv_file.lines[i].by
        /\ (csv_file.lines # <<>>) => HeaderLines = {1}

(* both calls have ended on a file that was absent: one header, then the   *)
(* rows of the two batches                                                 *)
C21_Witness ==
    /\ ver = "1.55"
    /\ pc = "csv_calls"
    /\ csv_tasks[1].pc = "done"
    /\ csv_tasks[2].pc = "done"
    /\ csv_tasks[1].n >= 2
    /\ csv_tasks[2].n >= 2
    /\ csv_file.lines[1] = HeaderLine(2)
    /\ Len(csv_file.lines) = 1 + csv_tasks[1].n + csv_tasks[2].n

(* C22: in 1.55 the wait before the next pass follows the system load:     *)
(* when the load is above the threshold as the wait begins, the wait is    *)
(* longer than the normal interval of asyncio.sleep(10); otherwise it is   *)
(* the normal interval.                                                    *)
C22_AdaptiveCadence ==
    [][(ver = "1.55" /\ pc = "sleep" /\ pc' = "read")
          => IF load_high
             THEN now' - now > SleepSeconds
             ELSE now' - now = SleepSeconds]_vars

(* C23: replay of the backup queue in 1.54.  A step removes an entry only  *)
(* when the records of the entry are then rows of the SQL table, and       *)
(* leaves the other entries in their order; an entry still in the queue    *)
(* when the loop has run for MaxTime154 seconds (more than ten minutes and *)
(* one boundary save) has had at least one replay attempt counted; its     *)
(* records are never written to the CSV file by a replay.                  *)
C23_ReplayBackupQueue ==
    /\ [][ver = "1.54" =>
            \A i \in DOMAIN backup_queue :
               \/ \E j \in DOMAIN backup_queue' :
                     /\ backup_queue'[j].batch = backup_queue[i].batch
                     /\ backup_queue'[j].attempts \in
                           {backup_queue[i].attempts,
                            backup_queue[i].attempts + 1}
               \/ \A r \in Range(backup_queue[i].batch) :
                     \E k \in DOMAIN sql_rows' :
                        sql_rows'[k]["timestamp"] = r["timestamp"]]_vars
    /\ []((ver = "1.54" /\ now >= MaxTime154) =>
            \A i \in DOMAIN backup_queue :
               /\ backup_queue[i].attempts >= 1
               /\ \A r \in Range(backup_queue[i].batch) :
                     r \notin Range(csv_rows))

(* C24: in 1.55 the buffer is flushed to SQL every 6 records: at the end   *)
(* of every loop iteration (main at asyncio.sleep) data_buffer holds fewer *)
(* than 6 records.                                                         *)
C24_BufferBelowSqlCount ==
    (ver = "1.55" /\ pc = "sleep") => Len(data_buffer) < SqlFlushCount

(* C25: in 1.55 the CSV file receives the sampled records every 30 passes: *)
(* while the loop runs, every record that a periodic flush submitted to    *)
(* SQL and that is at least 30 pass periods old has been submitted to      *)
(* save_to_csv by a periodic flush.                                        *)
C25_CsvEveryThirtyPasses ==
    (ver = "1.55" /\ pc = "sleep") =>
        \A i \in DOMAIN sql_log :
           \A r \in Range(sql_log[i].batch) :
              (now - TimeOf(r) >= CsvFlushCount * (ReadSeconds + SleepSeconds))
                 => \E j \in DOMAIN csv_log : r \in Range(csv_log[j].batch)

(* C26: save_to_sql of 1.55 and 1.56 writes a batch all or nothing: in the *)
(* step in which a call returns, the rows added to the table are none, or  *)
(* one row for each record of the batch in order, wherever connect, an     *)
(* INSERT or the commit failed.                                            *)
C26_AllOrNothing ==
    [][(/\ ver \in {"1.55", "1.56"}
        /\ Len(sql_log') = Len(sql_log) + 1
        /\ ~sql_log'[Len(sql_log')].cancelled)
          => LET batch == sql_log'[Len(sql_log')].batch
                 added == SubSeq(sql_rows', Len(sql_rows) + 1, Len(sql_rows'))
             IN  /\ Len(added) \in {0, Len(batch)}
                 /\ \A k \in DOMAIN added :
                       added[k]["timestamp"] = batch[k]["timestamp"]]_vars

(* a call of 1.55 with a batch of 6 on a failing server has returned and   *)
(* left no row; a later call has committed its whole batch                 *)
C26_Witness ==
    /\ ver = "1.55"
    /\ Len(sql_log) = 2
    /\ sql_log[1].plan # 0
    /\ ~sql_log[1].cancelled
    /\ ~sql_log[1].committed
    /\ Len(sql_log[1].batch) = SqlFlushCount
    /\ ~sql_log[2].cancelled
    /\ sql_log[2].committed
    /\ Len(sql_rows) = Len(sql_log[2].batch)

(* C27: the scheduler of 1.56 never busy-loops: whenever the loop goes     *)
(* from its wait to a sampling pass, next_save_time is strictly later than *)
(* the clock at which the wait began (so the wait sleeps) and the pass     *)
(* starts at next_save_time; and next_save_time is only ever set to an     *)
(* instant strictly later than the clock.                                  *)
C27_NeverBusyLoops ==
    /\ [][(ver = "1.56" /\ pc = "wait" /\ pc' = "read")
             => (next_save_time > now /\ now' = next_save_time)]_vars
    /\ [][(ver = "1.56" /\ next_save_time' # next_save_time)
             => next_save_time' > now']_vars

(* the second pass of 1.56 starts at next_save_time, after a first pass    *)
(* that gave a record with an absent field and a slow SQL write            *)
C27_Witness ==
    /\ ver = "1.56"
    /\ pc = "read"
    /\ passes = 1
    /\ now = next_save_time
    /\ slow_left = 0
    /\ \E r \in sampled : r["total_real_power"] = None
    /\ Len(csv_rows) = 1

============================================================================
